---- MODULE Spec2Model ----
(***************************************************************************)
(* Service-log manager: the Redux slice (serviceLogSlice.ts) and the       *)
(* effects of the ServiceLogManager component (load, persist, autosave).   *)
(*                                                                         *)
(* Representation.  Text fields are strings.  A date-only ISO string is    *)
(* the number of its day (1, 2, ...), and the empty string '' of a cleared *)
(* date input is 0.  An instant (a JS Date) is a number of hours since the *)
(* epoch, so that parsing a date string, adding a local day and formatting *)
(* back are three different functions.  A timestamp (lastSaved, createdAt) *)
(* is the reading of the clock `now`, counted in timer ticks.  Generated   *)
(* ids (`draft_<ms>_<random>`, `log_<ms>_<random>`) are fresh tokens       *)
(* drawn from two counters.                                                *)
(***************************************************************************)
EXTENDS Integers, Sequences, FiniteSets, TLC

VARIABLES
  state,          \* RootStateServiceLog, the Redux store's slice
  stored,         \* localStorage[LOCAL_STORAGE_KEY]: NoBlob, Corrupt or a JSON text
  storageFull,    \* localStorage.setItem throws (quota exceeded)
  isInitialLoad,  \* the component's isInitialLoad flag
  saveTimer,      \* the pending 1 s save timer of the autosave effect, or NoTimer
  resetTimers,    \* the pending 2 s status-reset timers (never cleared)
  now,            \* the clock, in ticks
  nextDraftId,    \* freshness of generated draft ids
  nextLogId,      \* freshness of generated record ids
  editAge,        \* observation: ticks since the last mutation of the current draft
  last,           \* observation: the step that produced this state
  issued,         \* observation: the ids createServiceLog has given to Records
  probe           \* a call of a pure function: its argument and its result

vars == <<state, stored, storageFull, isInitialLoad, saveTimer, resetTimers, now,
          nextDraftId, nextLogId, editAge, last, issued, probe>>

-----------------------------------------------------------------------------
(* Bounds of the model *)

MaxDrafts == 1        \* drafts created in one behaviour
MaxLogs == 3          \* records created in one behaviour
MaxTime == 2          \* clock readings above this are not told apart
TicksPerSecond == 2   \* resolution of the clock

(* Program constants *)

SAVE_DELAY_S == 1     \* setTimeout(..., 1000)
RESET_DELAY_S == 2    \* setTimeout(..., 2000)

SaveDelay == SAVE_DELAY_S * TicksPerSecond
ResetDelay == RESET_DELAY_S * TicksPerSecond

-----------------------------------------------------------------------------
(* The environment: wall clock and time zone *)

HoursPerDay == 24

\* The instant `new Date()` reads during the session: day 1, 10:00 UTC.
SessionInstant == 1 * HoursPerDay + 10

\* Instants at which the local time zone moves its clocks forward by one hour
\* (the start of daylight saving time): 01:00 UTC of day 3.
SpringForwardAt == {3 * HoursPerDay + 1}

\* Instants at which the local time zone moves its clocks back by one hour.
FallBackAt == {}

Null == [null |-> TRUE]
NoBlob == [absent |-> TRUE]

\* A stored text that JSON.parse rejects.
Corrupt == [corrupt |-> TRUE]

\* What a try block yields when it threw.
Threw == [threw |-> TRUE]
NoTimer == [none |-> TRUE]

\* No function is being called.
NoProbe == [idle |-> TRUE]

-----------------------------------------------------------------------------
(* Date arithmetic of updateDraft / updateEditingLogField / createInitialDraft *)

\* new Date("YYYY-MM-DD"): a date-only string is parsed as UTC midnight.
DateParse(s) == s * HoursPerDay

\* d.toISOString().split('T')[0]: the UTC calendar day of an instant.
ISODate(t) == t \div HoursPerDay

\* d.setDate(d.getDate() + 1): the same local wall-clock time on the next
\* local calendar day; 23 h later across a spring-forward, 25 h across a
\* fall-back, 24 h otherwise.
AddLocalDay(t) ==
  LET plain == t + HoursPerDay
      fwd == \E x \in SpringForwardAt : t < x /\ x <= plain
      back == \E x \in FallBackAt : t < x /\ x <= plain
  IN plain - (IF fwd THEN 1 ELSE 0) + (IF back THEN 1 ELSE 0)

\* The end date the reducers derive from a start date (lines 128-131, 182-185).
DayAfter(value) == ISODate(AddLocalDay(DateParse(value)))

\* s.trim() on the strings of the model: blank strings trim to ''.
Trim(s) == IF s \in {"", " "} THEN "" ELSE s

-----------------------------------------------------------------------------
(* Sequence helpers standing for Array.prototype methods *)

\* filter(keep): SelectSeq of the Sequences module.

\* findIndex: the first index whose element has this id, 0 for -1.
FindIndex(s, id) ==
  IF \E i \in 1..Len(s) : s[i].id = id
  THEN CHOOSE i \in 1..Len(s) : s[i].id = id /\ \A j \in 1..(i - 1) : s[j].id # id
  ELSE 0

-----------------------------------------------------------------------------
(* serviceLogSlice.ts *)

initialState ==
  [ serviceLogs |-> <<>>,
    drafts |-> <<>>,
    currentDraft |-> Null,
    searchTerm |-> "",
    filters |-> [startDateFrom |-> 0, startDateTo |-> 0, type |-> ""],
    editingLog |-> Null,
    saveStatus |-> "idle",
    validationErrors |-> <<>>,
    showFilters |-> FALSE ]

\* createInitialDraft(), reading the instant t from the wall clock.
createInitialDraft(t) ==
  [ providerId |-> "",
    serviceOrder |-> "",
    carId |-> "",
    odometer |-> 0,
    engineHours |-> 0,
    startDate |-> ISODate(t),
    endDate |-> ISODate(AddLocalDay(t)),
    type |-> "planned",
    serviceDescription |-> "" ]

\* Object spread { ...a, ...b }: b's fields over a's.
Spread(a, b) ==
  [f \in (DOMAIN a) \cup (DOMAIN b) |-> IF f \in DOMAIN b THEN b[f] ELSE a[f]]

\* data.f === undefined: a Partial<ServiceLog> need not have the field f.
Undefined(data, f) == f \notin DOMAIN data

\* validateServiceLog that returns at the first violation.
validateServiceLog_ShortCircuit(data) ==
  IF Undefined(data, "providerId") \/ Trim(data.providerId) = ""
  THEN <<"Provider ID is required">>
  ELSE IF Undefined(data, "serviceOrder") \/ Trim(data.serviceOrder) = ""
  THEN <<"Service Order is required">>
  ELSE IF Undefined(data, "carId") \/ Trim(data.carId) = ""
  THEN <<"Car ID is required">>
  ELSE IF Undefined(data, "odometer") \/ data.odometer < 0
  THEN <<"Valid odometer reading is required">>
  ELSE IF Undefined(data, "engineHours") \/ data.engineHours < 0
  THEN <<"Valid engine hours is required">>
  ELSE IF Undefined(data, "startDate") \/ data.startDate = 0
  THEN <<"Start date is required">>
  ELSE IF Undefined(data, "endDate") \/ data.endDate = 0
  THEN <<"End date is required">>
  ELSE IF Undefined(data, "serviceDescription") \/ Trim(data.serviceDescription) = ""
  THEN <<"Service description is required">>
  ELSE IF DateParse(data.endDate) < DateParse(data.startDate)
  THEN <<"End date must be after start date">>
  ELSE <<>>

\* validateServiceLog whose rule 9 rejects an end date equal to the start date.
validateServiceLog_SameDayRejected(data) ==
  LET e1 == IF Undefined(data, "providerId") \/ Trim(data.providerId) = ""
            THEN <<"Provider ID is required">> ELSE <<>>
      e2 == IF Undefined(data, "serviceOrder") \/ Trim(data.serviceOrder) = ""
            THEN <<"Service Order is required">> ELSE <<>>
      e3 == IF Undefined(data, "carId") \/ Trim(data.carId) = ""
            THEN <<"Car ID is required">> ELSE <<>>
      e4 == IF Undefined(data, "odometer") \/ data.odometer < 0
            THEN <<"Valid odometer reading is required">> ELSE <<>>
      e5 == IF Undefined(data, "engineHours") \/ data.engineHours < 0
            THEN <<"Valid engine hours is required">> ELSE <<>>
      e6 == IF Undefined(data, "startDate") \/ data.startDate = 0
            THEN <<"Start date is required">> ELSE <<>>
      e7 == IF Undefined(data, "endDate") \/ data.endDate = 0
            THEN <<"End date is required">> ELSE <<>>
      e8 == IF Undefined(data, "serviceDescription") \/ Trim(data.serviceDescription) = ""
            THEN <<"Service description is required">> ELSE <<>>
      e9 == IF /\ ~Undefined(data, "startDate") /\ data.startDate # 0
               /\ ~Undefined(data, "endDate") /\ data.endDate # 0
               /\ DateParse(data.endDate) <= DateParse(data.startDate)
            THEN <<"End date must be after start date">> ELSE <<>>
  IN e1 \o e2 \o e3 \o e4 \o e5 \o e6 \o e7 \o e8 \o e9

\* validateServiceLog(data).  `!data.f?.trim()` and `!data.f` hold for an
\* undefined field as for an empty one.
validateServiceLog(data) ==
  LET e1 == IF Undefined(data, "providerId") \/ Trim(data.providerId) = ""
            THEN <<"Provider ID is required">> ELSE <<>>
      e2 == IF Undefined(data, "serviceOrder") \/ Trim(data.serviceOrder) = ""
            THEN <<"Service Order is required">> ELSE <<>>
      e3 == IF Undefined(data, "carId") \/ Trim(data.carId) = ""
            THEN <<"Car ID is required">> ELSE <<>>
      e4 == IF Undefined(data, "odometer") \/ data.odometer < 0
            THEN <<"Valid odometer reading is required">> ELSE <<>>
      e5 == IF Undefined(data, "engineHours") \/ data.engineHours < 0
            THEN <<"Valid engine hours is required">> ELSE <<>>
      e6 == IF Undefined(data, "startDate") \/ data.startDate = 0
            THEN <<"Start date is required">> ELSE <<>>
      e7 == IF Undefined(data, "endDate") \/ data.endDate = 0
            THEN <<"End date is required">> ELSE <<>>
      e8 == IF Undefined(data, "serviceDescription") \/ Trim(data.serviceDescription) = ""
            THEN <<"Service description is required">> ELSE <<>>
      e9 == IF /\ ~Undefined(data, "startDate") /\ data.startDate # 0
               /\ ~Undefined(data, "endDate") /\ data.endDate # 0
               /\ DateParse(data.endDate) < DateParse(data.startDate)
            THEN <<"End date must be after start date">> ELSE <<>>
  IN e1 \o e2 \o e3 \o e4 \o e5 \o e6 \o e7 \o e8 \o e9

\* loadFromStorage that starts again from initialState.
loadFromStorage_Reset(s, payload) == Spread(initialState, payload)

loadFromStorage(s, payload) == Spread(s, payload)

createDraft(s, id, t, ts) ==
  LET newDraft == Spread(createInitialDraft(t),
                         [id |-> id, lastSaved |-> ts, isDirty |-> FALSE])
  IN [s EXCEPT !.drafts = Append(@, newDraft), !.currentDraft = newDraft]

setCurrentDraft(s, payload) == [s EXCEPT !.currentDraft = payload]

\* updateDraft that sets the save status before it looks the draft up.
updateDraft_StatusFirst(s, id, field, value) ==
  LET draftIndex == FindIndex(s.drafts, id) IN
  IF draftIndex = 0 THEN [s EXCEPT !.saveStatus = "saving"]
  ELSE
    LET set == [[s.drafts[draftIndex] EXCEPT ![field] = value] EXCEPT !.isDirty = TRUE]
        draft == IF field = "startDate" /\ value # 0
                 THEN [set EXCEPT !.endDate = DayAfter(value)]
                 ELSE set
    IN [s EXCEPT !.drafts[draftIndex] = draft,
                 !.currentDraft = IF @ # Null /\ @.id = id THEN draft ELSE @,
                 !.saveStatus = "saving"]

updateDraft(s, id, field, value) ==
  LET draftIndex == FindIndex(s.drafts, id) IN
  IF draftIndex = 0 THEN s
  ELSE
    LET set == [[s.drafts[draftIndex] EXCEPT ![field] = value] EXCEPT !.isDirty = TRUE]
        draft == IF field = "startDate" /\ value # 0
                 THEN [set EXCEPT !.endDate = DayAfter(value)]
                 ELSE set
    IN [s EXCEPT !.drafts[draftIndex] = draft,
                 !.currentDraft = IF @ # Null /\ @.id = id THEN draft ELSE @,
                 !.saveStatus = "saving"]

\* deleteDraft that clears the pointer whichever draft was deleted.
deleteDraft_ClearsPointer(s, id) ==
  LET keep(d) == d.id # id IN
  [s EXCEPT !.drafts = SelectSeq(@, keep), !.currentDraft = Null]

deleteDraft(s, id) ==
  LET keep(d) == d.id # id IN
  [s EXCEPT !.drafts = SelectSeq(@, keep),
            !.currentDraft = IF @ # Null /\ @.id = id THEN Null ELSE @]

clearAllDrafts(s) == [s EXCEPT !.drafts = <<>>, !.currentDraft = Null]

\* createServiceLog that forgets line 166: the promoted draft stays in the list.
createServiceLog_KeepsDraft(s, id, ts) ==
  IF s.currentDraft = Null
  THEN [s EXCEPT !.validationErrors = <<"No draft selected">>]
  ELSE
    LET errors == validateServiceLog(s.currentDraft) IN
    IF errors # <<>>
    THEN [s EXCEPT !.validationErrors = errors]
    ELSE [s EXCEPT !.serviceLogs = Append(@, Spread(s.currentDraft,
                                                    [id |-> id, createdAt |-> ts])),
                   !.currentDraft = Null,
                   !.validationErrors = <<>>]

\* createServiceLog that reports the first violation only.
createServiceLog_FirstErrorOnly(s, id, ts) ==
  IF s.currentDraft = Null
  THEN [s EXCEPT !.validationErrors = <<"No draft selected">>]
  ELSE
    LET errors == validateServiceLog(s.currentDraft) IN
    IF errors # <<>>
    THEN [s EXCEPT !.validationErrors = <<Head(errors)>>]
    ELSE
      LET newLog == Spread(s.currentDraft, [id |-> id, createdAt |-> ts])
          keep(d) == d.id # s.currentDraft.id
      IN [s EXCEPT !.serviceLogs = Append(@, newLog),
                   !.drafts = SelectSeq(@, keep),
                   !.currentDraft = Null,
                   !.validationErrors = <<>>]

createServiceLog(s, id, ts) ==
  IF s.currentDraft = Null
  THEN [s EXCEPT !.validationErrors = <<"No draft selected">>]
  ELSE
    LET errors == validateServiceLog(s.currentDraft) IN
    IF errors # <<>>
    THEN [s EXCEPT !.validationErrors = errors]
    ELSE
      LET newLog == Spread(s.currentDraft, [id |-> id, createdAt |-> ts])
          keep(d) == d.id # s.currentDraft.id
      IN [s EXCEPT !.serviceLogs = Append(@, newLog),
                   !.drafts = SelectSeq(@, keep),
                   !.currentDraft = Null,
                   !.validationErrors = <<>>]

setEditingLog(s, payload) ==
  [s EXCEPT !.editingLog = payload, !.validationErrors = <<>>]

\* updateEditingLogField that writes the field into the Record as well.
updateEditingLogField_WritesThrough(s, field, value) ==
  IF s.editingLog = Null THEN s
  ELSE
    LET updated == [s.editingLog EXCEPT ![field] = value]
    IN [s EXCEPT !.editingLog = updated,
                 !.serviceLogs = [i \in 1..Len(@) |->
                                    IF @[i].id = updated.id THEN updated ELSE @[i]]]

updateEditingLogField(s, field, value) ==
  IF s.editingLog = Null THEN s
  ELSE
    LET set == [s.editingLog EXCEPT ![field] = value]
        updated == IF field = "startDate" /\ value # 0
                   THEN [set EXCEPT !.endDate = DayAfter(value)]
                   ELSE set
    IN [s EXCEPT !.editingLog = updated]

\* saveEditingLog that stamps the committed copy with a new createdAt.
saveEditingLog_Restamps(s) ==
  IF s.editingLog = Null THEN s
  ELSE
    LET errors == validateServiceLog(s.editingLog) IN
    IF errors # <<>>
    THEN [s EXCEPT !.validationErrors = errors]
    ELSE [s EXCEPT
            !.serviceLogs = [i \in 1..Len(@) |->
                               IF @[i].id = s.editingLog.id
                               THEN [s.editingLog EXCEPT !.createdAt = @ + 1]
                               ELSE @[i]],
            !.editingLog = Null,
            !.showFilters = FALSE,
            !.saveStatus = "idle",
            !.validationErrors = <<>>]

\* saveEditingLog without the validation gate of lines 193-197.
saveEditingLog_NoValidation(s) ==
  IF s.editingLog = Null THEN s
  ELSE [s EXCEPT
          !.serviceLogs = [i \in 1..Len(@) |->
                             IF @[i].id = s.editingLog.id THEN s.editingLog ELSE @[i]],
          !.editingLog = Null,
          !.showFilters = FALSE,
          !.saveStatus = "idle",
          !.validationErrors = <<>>]

\* saveEditingLog that removes the Record and appends the working copy.
saveEditingLog_MovesToEnd(s) ==
  IF s.editingLog = Null THEN s
  ELSE
    LET errors == validateServiceLog(s.editingLog)
        keep(l) == l.id # s.editingLog.id
    IN IF errors # <<>>
       THEN [s EXCEPT !.validationErrors = errors]
       ELSE [s EXCEPT
               !.serviceLogs = Append(SelectSeq(@, keep), s.editingLog),
               !.editingLog = Null,
               !.showFilters = FALSE,
               !.saveStatus = "idle",
               !.validationErrors = <<>>]

\* saveEditingLog that closes the session when validation fails.
saveEditingLog_ClosesOnError(s) ==
  IF s.editingLog = Null THEN s
  ELSE
    LET errors == validateServiceLog(s.editingLog) IN
    IF errors # <<>>
    THEN [s EXCEPT !.validationErrors = errors, !.editingLog = Null]
    ELSE [s EXCEPT
            !.serviceLogs = [i \in 1..Len(@) |->
                               IF @[i].id = s.editingLog.id THEN s.editingLog ELSE @[i]],
            !.editingLog = Null,
            !.showFilters = FALSE,
            !.saveStatus = "idle",
            !.validationErrors = <<>>]

saveEditingLog(s) ==
  IF s.editingLog = Null THEN s
  ELSE
    LET errors == validateServiceLog(s.editingLog) IN
    IF errors # <<>>
    THEN [s EXCEPT !.validationErrors = errors]
    ELSE [s EXCEPT
            !.serviceLogs = [i \in 1..Len(@) |->
                               IF @[i].id = s.editingLog.id THEN s.editingLog ELSE @[i]],
            !.editingLog = Null,
            !.showFilters = FALSE,
            !.saveStatus = "idle",
            !.validationErrors = <<>>]

\* deleteServiceLog without line 207: the session on the deleted Record stays.
deleteServiceLog_KeepsSession(s, id) ==
  LET keep(l) == l.id # id IN
  [s EXCEPT !.serviceLogs = SelectSeq(@, keep)]

deleteServiceLog(s, id) ==
  LET keep(l) == l.id # id IN
  [s EXCEPT !.serviceLogs = SelectSeq(@, keep),
            !.editingLog = IF @ # Null /\ @.id = id THEN Null ELSE @]

setSearchTerm(s, payload) == [s EXCEPT !.searchTerm = payload]

setFilters(s, payload) == [s EXCEPT !.filters = Spread(@, payload)]

toggleFilters(s) == [s EXCEPT !.showFilters = ~@]

clearFilters(s) ==
  [s EXCEPT !.searchTerm = "",
            !.filters = [startDateFrom |-> 0, startDateTo |-> 0, type |-> ""]]

setSaveStatus(s, payload) == [s EXCEPT !.saveStatus = payload]

setValidationErrors(s, payload) == [s EXCEPT !.validationErrors = payload]

\* markDraftSaved that writes the draft back without its description.
markDraftSaved_DropsDescription(s, id, ts) ==
  LET i == FindIndex(s.drafts, id) IN
  IF i = 0 THEN s
  ELSE
    LET d == [s.drafts[i] EXCEPT !.isDirty = FALSE, !.lastSaved = ts,
                                 !.serviceDescription = ""] IN
    [s EXCEPT !.drafts[i] = d,
              !.currentDraft = IF @ # Null /\ @.id = d.id THEN d ELSE @]

\* markDraftSaved that forgets line 241: the pointer keeps the old values.
markDraftSaved_NoPointerSync(s, id, ts) ==
  LET i == FindIndex(s.drafts, id) IN
  IF i = 0 THEN s
  ELSE [s EXCEPT !.drafts[i] = [@ EXCEPT !.isDirty = FALSE, !.lastSaved = ts]]

\* markDraftSaved({ id }): lastSaved defaults to the clock reading ts.
markDraftSaved(s, id, ts) ==
  LET i == FindIndex(s.drafts, id) IN
  IF i = 0 THEN s
  ELSE
    LET d == [s.drafts[i] EXCEPT !.isDirty = FALSE, !.lastSaved = ts] IN
    [s EXCEPT !.drafts[i] = d,
              !.currentDraft = IF @ # Null /\ @.id = d.id THEN d ELSE @]

\* JSON.stringify(v): the text of v.  The values of the store are strings,
\* finite numbers, booleans, null, arrays and plain objects, which JSON
\* writes without loss.
JSONStringify(v) == [json |-> v]

\* JSON.parse(raw): the value a JSON text stands for; throws on any other text.
JSONParse(raw) == IF raw = Corrupt THEN Threw ELSE raw.json

\* toSave that clears isDirty in the list only: the current draft is written
\* as it is.
toSave_KeepsCurrentDirty(s) ==
  [ serviceLogs |-> s.serviceLogs,
    drafts |-> [i \in 1..Len(s.drafts) |-> [s.drafts[i] EXCEPT !.isDirty = FALSE]],
    currentDraft |-> s.currentDraft ]

\* The object toSave of persistToLocalStorage (lines 270-274).
toSave(s) ==
  [ serviceLogs |-> s.serviceLogs,
    drafts |-> [i \in 1..Len(s.drafts) |-> [s.drafts[i] EXCEPT !.isDirty = FALSE]],
    currentDraft |-> IF s.currentDraft # Null
                     THEN [s.currentDraft EXCEPT !.isDirty = FALSE]
                     ELSE Null ]

\* persistToLocalStorage whose failed write leaves the key empty.
persistToLocalStorage_ClearsOnFailure(s, blob, full) ==
  IF full THEN NoBlob ELSE JSONStringify(toSave(s))

\* persistToLocalStorage(state): the content of the key afterwards.  blob is
\* its content before; when setItem throws (full), the catch ignores it.
persistToLocalStorage(s, blob, full) ==
  IF full THEN blob ELSE JSONStringify(toSave(s))

\* loadFromLocalStorage(): null when the key is absent or its text does not
\* parse, else the parsed value.
loadFromLocalStorage(raw) ==
  IF raw = NoBlob THEN Null
  ELSE LET parsed == JSONParse(raw) IN
       IF parsed = Threw THEN Null ELSE parsed

-----------------------------------------------------------------------------
(* ServiceLogManager: the three effects *)

\* The dependency array [currentDraft?.isDirty, currentDraft?.id] of the
\* autosave effect.
AutosaveDeps(s) ==
  IF s.currentDraft = Null THEN Null
  ELSE [isDirty |-> s.currentDraft.isDirty, id |-> s.currentDraft.id]

\* state.currentDraft?.id, 0 for undefined.
CurrentId(s) == IF s.currentDraft = Null THEN 0 ELSE s.currentDraft.id

\* The autosave effect without the cleanup of line 80: a save timer started
\* for the previous current draft stays pending when the draft is switched.
AutosaveEffect_NoCleanup(prev, s, timer) ==
  IF AutosaveDeps(prev) = AutosaveDeps(s)
  THEN [state |-> s, timer |-> timer]
  ELSE IF s.currentDraft # Null /\ s.currentDraft.isDirty
       THEN [state |-> setSaveStatus(s, "saving"),
             timer |-> [draftId |-> s.currentDraft.id, rem |-> SaveDelay]]
       ELSE [state |-> s, timer |-> timer]

\* The autosave effect with the dependency array [currentDraft?.id]: it does
\* not run again when the current draft turns dirty.
AutosaveEffect_DepsIdOnly(prev, s, timer) ==
  IF CurrentId(prev) = CurrentId(s)
  THEN [state |-> s, timer |-> timer]
  ELSE IF s.currentDraft # Null /\ s.currentDraft.isDirty
       THEN [state |-> setSaveStatus(s, "saving"),
             timer |-> [draftId |-> s.currentDraft.id, rem |-> SaveDelay]]
       ELSE [state |-> s, timer |-> NoTimer]

\* The autosave effect after a render that took the store from prev to s.
\* Dependencies unchanged: nothing runs, the pending timer stays.  Changed:
\* the cleanup of the previous run clears its save timer, then the effect body
\* runs: it returns at once unless the current draft is dirty, and otherwise
\* dispatches setSaveStatus('saving') and starts a save timer that captures
\* the draft's id.
AutosaveEffect(prev, s, timer) ==
  IF AutosaveDeps(prev) = AutosaveDeps(s)
  THEN [state |-> s, timer |-> timer]
  ELSE IF s.currentDraft # Null /\ s.currentDraft.isDirty
       THEN [state |-> setSaveStatus(s, "saving"),
             timer |-> [draftId |-> s.currentDraft.id, rem |-> SaveDelay]]
       ELSE [state |-> s, timer |-> NoTimer]

\* The persist effect that waits for the autosave: nothing is written while
\* the current draft is dirty.
PersistEffect_SkipsDirty(renewed, s, initial, blob) ==
  IF initial \/ ~renewed \/ (s.currentDraft # Null /\ s.currentDraft.isDirty)
  THEN blob
  ELSE persistToLocalStorage(s, blob, storageFull)

\* The reducers that hand the store a new object (a spread copy, filter(), an
\* array literal) whatever its content: the selector then returns a new state
\* object even when no value differs.
NewObjectOps ==
  { "updateDraft", "deleteDraft", "clearAllDrafts", "createDraft",
    "createServiceLog", "setEditingLog", "cancelEdit", "updateEditingLogField",
    "saveEditingLog", "deleteServiceLog", "setFilters", "clearFilters",
    "toggleFilters" }

\* The persist effect after a render (dependencies [state, isInitialLoad]):
\* it runs when the selector returned a new state object (renewed) and the
\* initial load is over, and writes the blob.
PersistEffect(renewed, s, initial, blob) ==
  IF initial \/ ~renewed THEN blob ELSE persistToLocalStorage(s, blob, storageFull)

\* One run of the load effect (lines 48-54) on the store s: the dispatch of
\* loadFromStorage when storage held something.
LoadEffect(s, blob) ==
  LET persisted == loadFromLocalStorage(blob) IN
  IF persisted # Null THEN loadFromStorage(s, persisted) ELSE s

\* The persist effect without the isInitialLoad guard of line 58.
PersistOnMount_NoGuard(rendered, initial, blob) ==
  persistToLocalStorage(rendered, blob, storageFull)

\* One run of the persist effect on mount (lines 57-60): rendered and initial
\* are the state and the isInitialLoad of the render the effect closes over.
PersistOnMount(rendered, initial, blob) ==
  IF initial THEN blob ELSE persistToLocalStorage(rendered, blob, storageFull)

\* Observation: a reset timer is stale once the current draft was switched
\* after the timer was started.
MarkStale(timers, prev, s) ==
  IF CurrentId(prev) = CurrentId(s) THEN timers
  ELSE {[t EXCEPT !.stale = TRUE] : t \in timers}

Step(op) ==
  [op |-> op, id |-> 0, field |-> "", age |-> 0, stale |-> FALSE, changed |-> FALSE,
   payload |-> Null]

\* One dispatch from an event handler: the reducer's result s1, then the
\* render and the effects it triggers.  timer is the save timer still pending
\* when the effects run.
Commit(s1, timer, resets, step) ==
  LET eff == AutosaveEffect(state, s1, timer) IN
  /\ state' = eff.state
  /\ saveTimer' = eff.timer
  /\ resetTimers' = MarkStale(resets, state, eff.state)
  /\ stored' = PersistEffect(eff.state # state \/ step.op \in NewObjectOps,
                            eff.state, isInitialLoad, stored)
  /\ last' = step
  /\ issued' = IF step.op = "createServiceLog" /\ step.changed
               THEN issued \cup {s1.serviceLogs[Len(s1.serviceLogs)].id}
               ELSE issued
  /\ probe' = probe
  /\ isInitialLoad' = isInitialLoad
  /\ storageFull' = storageFull

-----------------------------------------------------------------------------------------------------------------------------------------------------
(* What an earlier session left in storage *)

\* A draft with every field filled in but the description.
SeedDraft(id) ==
  [ id |-> id, providerId |-> "P1", serviceOrder |-> "S1", carId |-> "C1",
    odometer |-> 100, engineHours |-> 5, startDate |-> 1, endDate |-> 2,
    type |-> "planned", serviceDescription |-> "",
    lastSaved |-> 0, isDirty |-> FALSE ]

\* The record createServiceLog made of such a draft once it was described.
SeedLog(id, draftId) ==
  Spread([SeedDraft(draftId) EXCEPT !.serviceDescription = "tyres"],
         [id |-> id, createdAt |-> 0])

OneDraft ==
  JSONStringify(toSave([initialState EXCEPT !.drafts = <<SeedDraft(11)>>]))

TwoDraftsOneLog ==
  JSONStringify(toSave([initialState EXCEPT
                           !.drafts = <<SeedDraft(11), SeedDraft(12)>>,
                           !.serviceLogs = <<SeedLog(21, 10)>>]))

OneDraftOneLog ==
  JSONStringify(toSave([initialState EXCEPT
                           !.drafts = <<SeedDraft(11)>>,
                           !.serviceLogs = <<SeedLog(21, 10)>>]))

-----------------------------------------------------------------------------
(* Initial state: the page has just loaded *)

InitWith(blobs) ==
  /\ state = initialState
  /\ stored \in blobs
  /\ storageFull = FALSE
  /\ isInitialLoad = TRUE
  /\ saveTimer = NoTimer
  /\ resetTimers = {}
  /\ now = 0
  /\ nextDraftId = 1
  /\ nextLogId = 1
  /\ editAge = SaveDelay
  /\ last = Step("init")
  /\ issued = {}
  /\ probe = NoProbe

-----
(* Steps *)

\* The mount of the component.  The effects of the first render run in the
\* order of their declaration: the load effect, then the persist effect, which
\* closes over the first render (state, isInitialLoad = true).  React.StrictMode
\* (main.tsx) runs them a second time.  Then the render with the loaded store
\* and isInitialLoad = false, after which the persist effect writes.
Load ==
  /\ isInitialLoad
  /\ LET s1 == LoadEffect(state, stored)
         b1 == PersistOnMount(state, isInitialLoad, stored)
         s2 == LoadEffect(s1, b1)
         b2 == PersistOnMount(state, isInitialLoad, b1)
         eff == AutosaveEffect(state, s2, saveTimer)
     IN /\ state' = eff.state
        /\ saveTimer' = eff.timer
        /\ stored' = persistToLocalStorage(eff.state, b2, storageFull)
  /\ isInitialLoad' = FALSE
  /\ last' = Step("load")
  /\ UNCHANGED <<storageFull, resetTimers, now, nextDraftId, nextLogId, editAge,
                 issued, probe>>

\* The user reloads the page: the store and every timer are gone, storage stays.
Reload ==
  /\ ~isInitialLoad
  /\ state' = initialState
  /\ isInitialLoad' = TRUE
  /\ saveTimer' = NoTimer
  /\ resetTimers' = {}
  /\ editAge' = SaveDelay
  /\ last' = Step("reload")
  /\ UNCHANGED <<stored, storageFull, now, nextDraftId, nextLogId, issued, probe>>

\* `draft_${Date.now()}_${Math.random().toString(36).slice(2, 9)}`: a token
\* no earlier call returned.
NewDraftId == nextDraftId

\* An id that takes the number of Records in the list as its token.
NewLogId_FromCount == Len(state.serviceLogs) + 1

\* `log_${Date.now()}_${Math.random().toString(36).slice(2, 9)}`.
NewLogId == nextLogId

\* The "New Draft" button, pressed at the instant t, in a behaviour that
\* creates at most limit drafts.
NewDraftAt(limit, t) ==
  /\ ~isInitialLoad
  /\ nextDraftId <= limit
  /\ Commit(createDraft(state, NewDraftId, t, now), saveTimer,
            resetTimers, [Step("createDraft") EXCEPT !.id = NewDraftId])
  /\ nextDraftId' = nextDraftId + 1
  /\ editAge' = SaveDelay
  /\ UNCHANGED <<now, nextLogId>>

NewDraft == NewDraftAt(MaxDrafts, SessionInstant)

SelectDraft(payload) ==
  /\ ~isInitialLoad
  /\ Commit(setCurrentDraft(state, payload), saveTimer, resetTimers,
            [Step("selectDraft") EXCEPT !.id = IF payload = Null THEN 0 ELSE payload.id])
  /\ editAge' = IF CurrentId(state') = CurrentId(state) THEN editAge ELSE SaveDelay
  /\ UNCHANGED <<now, nextDraftId, nextLogId>>

\* onChange of a field of the draft form: always the current draft's id.
EditDraft(field, value) ==
  /\ ~isInitialLoad
  /\ state.currentDraft # Null
  /\ Commit(updateDraft(state, state.currentDraft.id, field, value), saveTimer,
            resetTimers,
            [Step("updateDraft") EXCEPT !.id = state.currentDraft.id, !.field = field])
  /\ editAge' = 0
  /\ UNCHANGED <<now, nextDraftId, nextLogId>>

\* dispatch(updateDraft({ id, field, value })) for any id.
UpdateDraftById(id, field, value) ==
  /\ ~isInitialLoad
  /\ Commit(updateDraft(state, id, field, value), saveTimer, resetTimers,
            [Step("updateDraft") EXCEPT !.id = id, !.field = field])
  /\ editAge' = IF CurrentId(state) = id THEN 0 ELSE editAge
  /\ UNCHANGED <<now, nextDraftId, nextLogId>>

\* dispatch(markDraftSaved({ id })) for any id.
MarkSaved(id) ==
  /\ ~isInitialLoad
  /\ Commit(markDraftSaved(state, id, now), saveTimer, resetTimers,
            [Step("markDraftSaved") EXCEPT !.id = id])
  /\ UNCHANGED <<now, nextDraftId, nextLogId, editAge>>

\* type ServiceType.
ServiceTypes == {"planned", "unplanned", "emergency"}

\* The value a single-choice ToggleGroup.Root hands to onValueChange when an
\* item is pressed: the item's value, or '' when the pressed item was the
\* selected one (pressing it again deselects it).
ToggleGroupValue(selected, item) == IF selected = item THEN "" ELSE item

\* A press on an item of the "Service Type" toggle group of the draft form.
PickType(item) ==
  /\ state.currentDraft # Null
  /\ EditDraft("type", ToggleGroupValue(state.currentDraft.type, item))

DeleteDraft(id) ==
  /\ ~isInitialLoad
  /\ Commit(deleteDraft(state, id), saveTimer, resetTimers,
            [Step("deleteDraft") EXCEPT !.id = id])
  /\ editAge' = IF CurrentId(state') = CurrentId(state) THEN editAge ELSE SaveDelay
  /\ UNCHANGED <<now, nextDraftId, nextLogId>>

ClearAllDrafts ==
  /\ ~isInitialLoad
  /\ Len(state.drafts) > 0
  /\ Commit(clearAllDrafts(state), saveTimer, resetTimers, Step("clearAllDrafts"))
  /\ editAge' = SaveDelay
  /\ UNCHANGED <<now, nextDraftId, nextLogId>>

\* The "Create Service Log" button, shown while a draft is current.
Promote ==
  /\ ~isInitialLoad
  /\ state.currentDraft # Null
  /\ nextLogId <= MaxLogs
  /\ LET s1 == createServiceLog(state, NewLogId, now)
         made == Len(s1.serviceLogs) > Len(state.serviceLogs)
     IN /\ Commit(s1, saveTimer, resetTimers,
                  [Step("createServiceLog") EXCEPT !.id = state.currentDraft.id,
                                                   !.changed = made])
        /\ nextLogId' = IF made THEN nextLogId + 1 ELSE nextLogId
        /\ editAge' = IF made THEN SaveDelay ELSE editAge
  /\ UNCHANGED <<now, nextDraftId>>

\* Observation: the open edit session differs from the Record it copies.
SessionEdited(s) ==
  /\ s.editingLog # Null
  /\ \E i \in 1..Len(s.serviceLogs) :
       s.serviceLogs[i].id = s.editingLog.id /\ s.serviceLogs[i] # s.editingLog

\* The pencil button of a row of the table.  changed: an edited session on
\* another Record was open.
BeginEdit(log) ==
  /\ ~isInitialLoad
  /\ Commit(setEditingLog(state, log), saveTimer, resetTimers,
            [Step("setEditingLog") EXCEPT
               !.id = log.id,
               !.changed = SessionEdited(state) /\ state.editingLog.id # log.id])
  /\ UNCHANGED <<now, nextDraftId, nextLogId, editAge>>

CancelEdit ==
  /\ ~isInitialLoad
  /\ state.editingLog # Null
  /\ Commit(setEditingLog(state, Null), saveTimer, resetTimers,
            [Step("cancelEdit") EXCEPT !.id = state.editingLog.id,
                                       !.changed = SessionEdited(state)])
  /\ UNCHANGED <<now, nextDraftId, nextLogId, editAge>>

EditLog(field, value) ==
  /\ ~isInitialLoad
  /\ state.editingLog # Null
  /\ Commit(updateEditingLogField(state, field, value), saveTimer, resetTimers,
            [Step("updateEditingLogField") EXCEPT !.id = state.editingLog.id,
                                                  !.field = field])
  /\ UNCHANGED <<now, nextDraftId, nextLogId, editAge>>

SaveEdit ==
  /\ ~isInitialLoad
  /\ state.editingLog # Null
  /\ LET s1 == saveEditingLog(state) IN
     Commit(s1, saveTimer, resetTimers,
            [Step("saveEditingLog") EXCEPT !.id = state.editingLog.id,
                                           !.changed = (s1.editingLog = Null)])
  /\ UNCHANGED <<now, nextDraftId, nextLogId, editAge>>

DeleteLog(id) ==
  /\ ~isInitialLoad
  /\ Commit(deleteServiceLog(state, id), saveTimer, resetTimers,
            [Step("deleteServiceLog") EXCEPT !.id = id])
  /\ UNCHANGED <<now, nextDraftId, nextLogId, editAge>>

\* The search box (line 360).
SetSearch(term) ==
  /\ ~isInitialLoad
  /\ Commit(setSearchTerm(state, term), saveTimer, resetTimers, Step("setSearchTerm"))
  /\ UNCHANGED <<now, nextDraftId, nextLogId, editAge>>

\* One control of the filter panel (lines 385, 395, 404).
SetFilter(payload) ==
  /\ ~isInitialLoad
  /\ state.showFilters
  /\ Commit(setFilters(state, payload), saveTimer, resetTimers, Step("setFilters"))
  /\ UNCHANGED <<now, nextDraftId, nextLogId, editAge>>

\* The "Filters" button (line 366).
ToggleFilters ==
  /\ ~isInitialLoad
  /\ Commit(toggleFilters(state), saveTimer, resetTimers, Step("toggleFilters"))
  /\ UNCHANGED <<now, nextDraftId, nextLogId, editAge>>

\* "Clear all filters", inside the filter panel (line 415).
ClearFilters ==
  /\ ~isInitialLoad
  /\ state.showFilters
  /\ Commit(clearFilters(state), saveTimer, resetTimers, Step("clearFilters"))
  /\ UNCHANGED <<now, nextDraftId, nextLogId, editAge>>

\* dispatch(loadFromStorage(payload)) on a store in use: the exported action
\* creator, with a partial state as its payload.
Restore(payload) ==
  /\ ~isInitialLoad
  /\ Commit(loadFromStorage(state, payload), saveTimer, resetTimers,
            [Step("loadFromStorage") EXCEPT !.payload = payload])
  /\ editAge' = IF CurrentId(state') = CurrentId(state) THEN editAge ELSE SaveDelay
  /\ UNCHANGED <<now, nextDraftId, nextLogId>>

\* The origin's storage quota is used up: setItem throws from now on.
StorageFills ==
  /\ ~storageFull
  /\ storageFull' = TRUE
  /\ last' = Step("storageFills")
  /\ UNCHANGED <<state, stored, isInitialLoad, saveTimer, resetTimers, now,
                 nextDraftId, nextLogId, editAge, issued, probe>>

\* Room is made in the origin's storage: setItem works again.
StorageFrees ==
  /\ storageFull
  /\ storageFull' = FALSE
  /\ last' = Step("storageFrees")
  /\ UNCHANGED <<state, stored, isInitialLoad, saveTimer, resetTimers, now,
                 nextDraftId, nextLogId, editAge, issued, probe>>

\* The save timer's callback (lines 69-78): markDraftSaved for the captured
\* id, setSaveStatus('saved'), and a reset timer that nothing ever clears.
SaveTimerFires ==
  /\ saveTimer # NoTimer
  /\ saveTimer.rem = 0
  /\ LET s1 == markDraftSaved(state, saveTimer.draftId, now)
         s2 == setSaveStatus(s1, "saved")
     IN Commit(s2, NoTimer, resetTimers \cup {[rem |-> ResetDelay, stale |-> FALSE]},
               [Step("saveTimer") EXCEPT !.id = saveTimer.draftId, !.age = editAge])
  /\ editAge' = SaveDelay
  /\ UNCHANGED <<now, nextDraftId, nextLogId>>

\* A reset timer's callback (lines 73-75): setSaveStatus('idle').
ResetTimerFires ==
  \E t \in resetTimers :
    /\ t.rem = 0
    /\ Commit(setSaveStatus(state, "idle"), saveTimer, resetTimers \ {t},
              [Step("resetTimer") EXCEPT !.stale = t.stale,
                                         !.changed = (state.saveStatus # "idle")])
    /\ UNCHANGED <<now, nextDraftId, nextLogId, editAge>>

TimerDue ==
  \/ saveTimer # NoTimer /\ saveTimer.rem = 0
  \/ \E t \in resetTimers : t.rem = 0

\* Half a second passes (1 / TicksPerSecond); a due timer fires first.
Tick ==
  /\ ~TimerDue
  /\ now' = IF now < MaxTime THEN now + 1 ELSE now
  /\ saveTimer' = IF saveTimer = NoTimer THEN NoTimer
                  ELSE [saveTimer EXCEPT !.rem = @ - 1]
  /\ resetTimers' = {[t EXCEPT !.rem = @ - 1] : t \in resetTimers}
  /\ editAge' = IF editAge < SaveDelay THEN editAge + 1 ELSE editAge
  /\ last' = Step("tick")
  /\ UNCHANGED <<state, stored, storageFull, isInitialLoad, nextDraftId, nextLogId,
                 issued, probe>>

Min(a, b) == IF a < b THEN a ELSE b

\* The user leaves the page alone until no timer is pending: the save timer's
\* callback runs when it is due, and every reset timer's callback after it.
\* The steps SaveTimerFires and ResetTimerFires taken in a row, with the time
\* between them.
Idle ==
  /\ saveTimer # NoTimer \/ resetTimers # {}
  /\ LET fired == saveTimer # NoTimer
         t1 == IF fired THEN Min(now + saveTimer.rem, MaxTime) ELSE now
         s1 == IF fired
               THEN setSaveStatus(markDraftSaved(state, saveTimer.draftId, t1), "saved")
               ELSE state
         e1 == AutosaveEffect(state, s1, NoTimer)
         s2 == setSaveStatus(e1.state, "idle")
         e2 == AutosaveEffect(e1.state, s2, e1.timer)
     IN /\ state' = e2.state
        /\ saveTimer' = e2.timer
        /\ stored' = PersistEffect(e2.state # state, e2.state, isInitialLoad, stored)
        /\ now' = Min(t1 + ResetDelay, MaxTime)
        /\ last' = [Step("idle") EXCEPT !.id = IF fired THEN saveTimer.draftId ELSE 0,
                                        !.changed = fired]
  /\ resetTimers' = {}
  /\ editAge' = SaveDelay
  /\ UNCHANGED <<storageFull, isInitialLoad, nextDraftId, nextLogId, issued, probe>>

-----------------------------------------------------------------------------
(* The draft workflow with autosave *)

TimerEdits == { <<"serviceDescription", "oil change">> }

InitTimer == InitWith({NoBlob, OneDraft})

NextTimer ==
  \/ Load
  \/ Reload
  \/ NewDraft
  \/ \E i \in 1..Len(state.drafts) : SelectDraft(state.drafts[i])
  \/ SelectDraft(Null)
  \/ \E e \in TimerEdits : EditDraft(e[1], e[2])
  \/ \E i \in 1..Len(state.drafts) : DeleteDraft(state.drafts[i].id)
  \/ ClearAllDrafts
  \/ Promote
  \/ SaveTimerFires
  \/ ResetTimerFires
  \/ Tick

SpecTimer == InitTimer /\ [][NextTimer]_vars

\* Time passes and the event loop runs every timer that is due.
Fairness ==
  /\ WF_vars(Tick)
  /\ WF_vars(SaveTimerFires)
  /\ WF_vars(ResetTimerFires)

SpecTimerFair == SpecTimer /\ Fairness

-----------------------------------------------------------------------------
(* Promotion of drafts of every kind of validity *)

PromoteEdits ==
  { <<"serviceDescription", "oil change">>,
    <<"odometer", -5>> }

InitPromote == InitWith({NoBlob, TwoDraftsOneLog})

NextPromote ==
  \/ Load
  \/ NewDraft
  \/ \E i \in 1..Len(state.drafts) : SelectDraft(state.drafts[i])
  \/ \E e \in PromoteEdits : EditDraft(e[1], e[2])
  \/ \E i \in 1..Len(state.drafts) : DeleteDraft(state.drafts[i].id)
  \/ Promote
  \/ Idle

SpecPromote == InitPromote /\ [][NextPromote]_vars

-----------------------------------------------------------------------------
(* The whole life of a record: promotion, edit sessions, deletion, reload *)

DraftEdits ==
  { <<"serviceDescription", "oil change">>,
    <<"odometer", -5>>,
    <<"startDate", 3>> }

\* What the user types into the edit dialog.
LogEdits ==
  { <<"serviceDescription", " ">>,
    <<"odometer", -5>>,
    <<"startDate", 3>>,
    <<"endDate", 1>> }

Init == InitWith({NoBlob, OneDraftOneLog})

Next ==
  \/ Load
  \/ Reload
  \/ \E i \in 1..Len(state.drafts) : DeleteDraft(state.drafts[i].id)
  \/ ClearAllDrafts
  \/ \E e \in DraftEdits : EditDraft(e[1], e[2])
  \/ \E i \in 1..Len(state.drafts) : SelectDraft(state.drafts[i])
  \/ Promote
  \/ \E i \in 1..Len(state.serviceLogs) : BeginEdit(state.serviceLogs[i])
  \/ CancelEdit
  \/ \E e \in LogEdits : EditLog(e[1], e[2])
  \/ SaveEdit
  \/ \E i \in 1..Len(state.serviceLogs) : DeleteLog(state.serviceLogs[i].id)
  \/ Idle

Spec == Init /\ [][Next]_vars

-----------------------------------------------------------------------------
(* Persistence: storage that is absent, corrupt, filled, or failing *)

StorageEdits == { <<"serviceDescription", "oil change">> }

InitStorage == InitWith({NoBlob, Corrupt, OneDraftOneLog})

NextStorage ==
  \/ Load
  \/ Reload
  \/ NewDraft
  \/ \E i \in 1..Len(state.drafts) : SelectDraft(state.drafts[i])
  \/ \E e \in StorageEdits : EditDraft(e[1], e[2])
  \/ \E i \in 1..Len(state.drafts) : DeleteDraft(state.drafts[i].id)
  \/ Promote
  \/ StorageFills
  \/ StorageFrees
  \/ Idle

SpecStorage == InitStorage /\ [][NextStorage]_vars

-----------------------------------------------------------------------------
(* loadFromStorage on a store whose every field has been in use *)

RestoreEdits == { <<"serviceDescription", "oil change">> }

\* Partial states: a whole blob, and blobs with some of the fields.
RestorePayloads ==
  { JSONParse(OneDraftOneLog),
    [serviceLogs |-> <<>>],
    [drafts |-> <<>>, currentDraft |-> Null] }

InitRestore == InitWith({OneDraftOneLog})

NextRestore ==
  \/ Load
  \/ SetSearch("tyres")
  \/ ToggleFilters
  \/ SetFilter([type |-> "planned"])
  \/ SetFilter([startDateFrom |-> 1])
  \/ ClearFilters
  \/ \E i \in 1..Len(state.drafts) : SelectDraft(state.drafts[i])
  \/ \E e \in RestoreEdits : EditDraft(e[1], e[2])
  \/ Promote
  \/ \E i \in 1..Len(state.serviceLogs) : BeginEdit(state.serviceLogs[i])
  \/ \E p \in RestorePayloads : Restore(p)

SpecRestore == InitRestore /\ [][NextRestore]_vars

-----------------------------------------------------------------------------
(* Ids: drafts and records created, deleted and created again *)

MaxIdDrafts == 2      \* drafts created in one behaviour of SpecIds

IdEdits == { <<"serviceDescription", "oil change">> }

InitIds == InitWith({TwoDraftsOneLog})

NextIds ==
  \/ Load
  \/ NewDraftAt(MaxIdDrafts, SessionInstant)
  \/ \E i \in 1..Len(state.drafts) : SelectDraft(state.drafts[i])
  \/ \E e \in IdEdits : EditDraft(e[1], e[2])
  \/ \E i \in 1..Len(state.drafts) : DeleteDraft(state.drafts[i].id)
  \/ Promote
  \/ \E i \in 1..Len(state.serviceLogs) : DeleteLog(state.serviceLogs[i].id)

SpecIds == InitIds /\ [][NextIds]_vars

-----------------------------------------------------------------------------
(* The service type, from the controls to the Record *)

TypeEdits == { <<"serviceDescription", "oil change">> }

InitType == InitWith({OneDraftOneLog})

NextType ==
  \/ Load
  \/ \E i \in 1..Len(state.drafts) : SelectDraft(state.drafts[i])
  \/ \E item \in ServiceTypes : PickType(item)
  \/ \E e \in TypeEdits : EditDraft(e[1], e[2])
  \/ Promote
  \/ \E i \in 1..Len(state.serviceLogs) : BeginEdit(state.serviceLogs[i])
  \/ \E option \in ServiceTypes : EditLog("type", option)
  \/ SaveEdit
  \/ Idle

SpecType == InitType /\ [][NextType]_vars

-----------------------------------------------------------------------------
(* The filtered view of the records (filteredLogs) *)

\* The characters of the strings of the model.
TextChars ==
  ("" :> <<>>) @@
  (" " :> <<" ">>) @@
  ("P1" :> <<"P", "1">>) @@
  ("S1" :> <<"S", "1">>) @@
  ("C1" :> <<"C", "1">>) @@
  ("tyres" :> <<"t", "y", "r", "e", "s">>) @@
  ("oil change" :> <<"o", "i", "l", " ", "c", "h", "a", "n", "g", "e">>) @@
  ("Oil Filter" :> <<"O", "i", "l", " ", "F", "i", "l", "t", "e", "r">>) @@
  ("planned" :> <<"p", "l", "a", "n", "n", "e", "d">>) @@
  ("unplanned" :> <<"u", "n", "p", "l", "a", "n", "n", "e", "d">>) @@
  ("emergency" :> <<"e", "m", "e", "r", "g", "e", "n", "c", "y">>) @@
  ("OIL" :> <<"O", "I", "L">>) @@
  ("p1" :> <<"p", "1">>) @@
  ("als" :> <<"a", "l", "s">>) @@
  ("TYRES" :> <<"T", "Y", "R", "E", "S">>)

Chars(s) == TextChars[s]

DigitChars == <<"0", "1", "2", "3", "4", "5", "6", "7", "8", "9">>

\* Number.prototype.toString of an integer.
RECURSIVE NumberText(_)
NumberText(n) ==
  IF n < 0 THEN <<"-">> \o NumberText(0 - n)
  ELSE IF n < 10 THEN <<DigitChars[n + 1]>>
  ELSE NumberText(n \div 10) \o <<DigitChars[(n % 10) + 1]>>

\* The date-only string of day d: '' for 0, else "2024-01-dd".
DateText(d) ==
  IF d = 0 THEN <<>>
  ELSE <<"2", "0", "2", "4", "-", "0", "1", "-">>
       \o (IF d < 10 THEN <<"0">> ELSE <<>>) \o NumberText(d)

\* The ISO string of the clock reading ts (new Date().toISOString()).
TimestampText(ts) == DateText(1) \o <<"T">> \o NumberText(ts) \o <<"Z">>

\* value.toString() of the value of the field f of a Record.
ValueText(f, value) ==
  CASE f \in {"providerId", "serviceOrder", "carId", "type", "serviceDescription"}
         -> Chars(value)
    [] f \in {"odometer", "engineHours"} -> NumberText(value)
    [] f \in {"startDate", "endDate"} -> DateText(value)
    [] f \in {"createdAt", "lastSaved"} -> TimestampText(value)
    [] f = "id" -> <<"l", "o", "g", "_">> \o NumberText(value)
    [] f = "isDirty" -> IF value THEN <<"t", "r", "u", "e">>
                                 ELSE <<"f", "a", "l", "s", "e">>

UpperCaseLetters ==
  <<"A", "B", "C", "D", "E", "F", "G", "H", "I", "J", "K", "L", "M", "N", "O", "P", "Q", "R", "S", "T", "U", "V", "W", "X", "Y", "Z">>

LowerCaseLetters ==
  <<"a", "b", "c", "d", "e", "f", "g", "h", "i", "j", "k", "l", "m", "n", "o", "p", "q", "r", "s", "t", "u", "v", "w", "x", "y", "z">>

LowerChar(c) ==
  IF \E k \in 1..26 : UpperCaseLetters[k] = c
  THEN LowerCaseLetters[CHOOSE k \in 1..26 : UpperCaseLetters[k] = c]
  ELSE c

\* String.prototype.toLowerCase.
ToLowerCase(text) == [i \in 1..Len(text) |-> LowerChar(text[i])]

\* String.prototype.includes.
Includes(text, part) ==
  \E k \in 0..(Len(text) - Len(part)) : SubSeq(text, k + 1, k + Len(part)) = part

\* filteredLogs that compares the search term as it was typed.
filteredLogs_CaseSensitive(s) ==
  LET matches(log) ==
        LET matchesSearch ==
              \/ s.searchTerm = ""
              \/ \E f \in DOMAIN log :
                   Includes(ValueText(f, log[f]), Chars(s.searchTerm))
            matchesDateRange ==
              /\ s.filters.startDateFrom = 0 \/ log.startDate >= s.filters.startDateFrom
              /\ s.filters.startDateTo = 0 \/ log.startDate <= s.filters.startDateTo
            matchesType == s.filters.type = "" \/ log.type = s.filters.type
        IN matchesSearch /\ matchesDateRange /\ matchesType
  IN SelectSeq(s.serviceLogs, matches)

\* filteredLogs (lines 107-121).  The date bounds compare date-only strings
\* of one format, which order as their days do.
filteredLogs(s) ==
  LET matches(log) ==
        LET matchesSearch ==
              \/ s.searchTerm = ""
              \/ \E f \in DOMAIN log :
                   Includes(ToLowerCase(ValueText(f, log[f])),
                            ToLowerCase(Chars(s.searchTerm)))
            matchesDateRange ==
              /\ s.filters.startDateFrom = 0 \/ log.startDate >= s.filters.startDateFrom
              /\ s.filters.startDateTo = 0 \/ log.startDate <= s.filters.startDateTo
            matchesType == s.filters.type = "" \/ log.type = s.filters.type
        IN matchesSearch /\ matchesDateRange /\ matchesType
  IN SelectSeq(s.serviceLogs, matches)

\* Three records of an earlier session: different dates, types and texts.
ThreeLogs ==
  JSONStringify(toSave([initialState EXCEPT
     !.serviceLogs =
       << SeedLog(21, 10),
          [SeedLog(22, 10) EXCEPT !.startDate = 2, !.endDate = 3,
                                  !.type = "emergency",
                                  !.serviceDescription = "Oil Filter"],
          [SeedLog(23, 10) EXCEPT !.startDate = 3, !.endDate = 4] >>]))

\* What the user types into the search box.
SearchTerms == {"", "OIL", "p1", "als", "TYRES"}

\* What the controls of the filter panel dispatch.
FilterPayloads ==
  { [startDateFrom |-> 0], [startDateFrom |-> 2],
    [startDateTo |-> 0], [startDateTo |-> 2],
    [type |-> ""], [type |-> "planned"], [type |-> "emergency"] }

InitView == InitWith({ThreeLogs})

NextView ==
  \/ Load
  \/ \E term \in SearchTerms : SetSearch(term)
  \/ ToggleFilters
  \/ \E payload \in FilterPayloads : SetFilter(payload)
  \/ ClearFilters
  \/ \E i \in 1..Len(state.serviceLogs) : DeleteLog(state.serviceLogs[i].id)

SpecView == InitView /\ [][NextView]_vars

-----------------------------------------------------------------------------
(* Operations that are handed the id of a draft or record that is gone *)

\* An id no draft and no record has.
StaleIds == {99}

StaleEdits == { <<"serviceDescription", "oil change">> }

InitStale == InitWith({OneDraftOneLog})

NextStale ==
  \/ Load
  \/ \E i \in 1..Len(state.drafts) : SelectDraft(state.drafts[i])
  \/ \E i \in 1..Len(state.serviceLogs) : BeginEdit(state.serviceLogs[i])
  \/ \E e \in StaleEdits : EditLog(e[1], e[2])
  \/ \E id \in StaleIds \cup {state.drafts[i].id : i \in 1..Len(state.drafts)} :
       \/ \E e \in StaleEdits : UpdateDraftById(id, e[1], e[2])
       \/ DeleteDraft(id)
       \/ MarkSaved(id)
  \/ \E id \in StaleIds \cup {state.serviceLogs[i].id : i \in 1..Len(state.serviceLogs)} :
       DeleteLog(id)
  \/ Idle

SpecStale == InitStale /\ [][NextStale]_vars

-----------------------------------------------------------------------------
(* Drafts created at different times of the day *)

\* The instants at which "New Draft" is pressed: mid-morning of day 1, and
\* the first hour (UTC) of day 3, one hour before the clocks go forward.
CreateInstants == {SessionInstant, 3 * HoursPerDay}

InitCreate == InitWith({OneDraftOneLog})

NextCreate ==
  \/ Load
  \/ \E t \in CreateInstants : NewDraftAt(MaxIdDrafts, t)
  \/ \E i \in 1..Len(state.drafts) : SelectDraft(state.drafts[i])
  \/ \E i \in 1..Len(state.drafts) : DeleteDraft(state.drafts[i].id)
  \/ \E i \in 1..Len(state.serviceLogs) : BeginEdit(state.serviceLogs[i])
  \/ CancelEdit

SpecCreate == InitCreate /\ [][NextCreate]_vars

-----------------------------------------------------------------------------
(* Edits that arrive while a save is pending *)

SaveEdits ==
  { <<"serviceDescription", "oil change">>,
    <<"odometer", -5>> }

InitSave == InitWith({TwoDraftsOneLog})

NextSave ==
  \/ Load
  \/ \E i \in 1..Len(state.drafts) : SelectDraft(state.drafts[i])
  \/ \E e \in SaveEdits : EditDraft(e[1], e[2])
  \/ \E i \in 1..Len(state.drafts) : MarkSaved(state.drafts[i].id)
  \/ SaveTimerFires
  \/ ResetTimerFires
  \/ Tick

SpecSave == InitSave /\ [][NextSave]_vars

-----------------------------------------------------------------------------
(* The save status while drafts are left, promoted and records committed *)

StatusEdits == { <<"serviceDescription", "oil change">> }

InitStatus == InitWith({TwoDraftsOneLog})

NextStatus ==
  \/ Load
  \/ \E i \in 1..Len(state.drafts) : SelectDraft(state.drafts[i])
  \/ \E e \in StatusEdits : EditDraft(e[1], e[2])
  \/ \E i \in 1..Len(state.drafts) : DeleteDraft(state.drafts[i].id)
  \/ Promote
  \/ \E i \in 1..Len(state.serviceLogs) : BeginEdit(state.serviceLogs[i])
  \/ SaveEdit
  \/ SaveTimerFires
  \/ ResetTimerFires
  \/ Tick

SpecStatus == InitStatus /\ [][NextStatus]_vars

SpecStatusFair == SpecStatus /\ Fairness

-----------------------------------------------------------------------------
(* Edit sessions committed while the list is searched and filtered *)

CommitEdits ==
  { <<"serviceDescription", "oil change">>,
    <<"odometer", -5>> }

InitCommit == InitWith({OneDraftOneLog})

NextCommit ==
  \/ Load
  \/ SetSearch("tyres")
  \/ ToggleFilters
  \/ SetFilter([type |-> "planned"])
  \/ \E i \in 1..Len(state.drafts) : SelectDraft(state.drafts[i])
  \/ \E i \in 1..Len(state.serviceLogs) : BeginEdit(state.serviceLogs[i])
  \/ \E e \in CommitEdits : EditLog(e[1], e[2])
  \/ SaveEdit
  \/ CancelEdit

SpecCommit == InitCommit /\ [][NextCommit]_vars

-----------------------------------------------------------------------------
(* validateServiceLog on candidates of every kind *)

RequiredFields ==
  { "providerId", "serviceOrder", "carId", "odometer", "engineHours",
    "startDate", "endDate", "serviceDescription" }

\* Candidates with every required field: what a form can hold.
FullCandidates ==
  [ providerId : {"", " ", "P1"},
    serviceOrder : {"", "S1"},
    carId : {" ", "C1"},
    odometer : {-5, 0},
    engineHours : {-1, 5},
    startDate : {0, 2},
    endDate : {0, 1, 2, 3},
    type : {"planned"},
    serviceDescription : {" ", "tyres"} ]

\* A Partial<ServiceLog>: the candidate c without the fields of missing.
Partial(c, missing) == [f \in (DOMAIN c) \ missing |-> c[f]]

InitValidate ==
  /\ state = initialState
  /\ stored = NoBlob
  /\ storageFull = FALSE
  /\ isInitialLoad = TRUE
  /\ saveTimer = NoTimer
  /\ resetTimers = {}
  /\ now = 0
  /\ nextDraftId = 1
  /\ nextLogId = 1
  /\ editAge = SaveDelay
  /\ last = Step("init")
  /\ issued = {}
  /\ \E c \in FullCandidates, missing \in SUBSET RequiredFields :
       probe = [arg |-> Partial(c, missing), called |-> FALSE, result |-> <<>>]

\* The call validateServiceLog(probe.arg).
Validate ==
  /\ probe # NoProbe
  /\ ~probe.called
  /\ probe' = [probe EXCEPT !.called = TRUE, !.result = validateServiceLog(probe.arg)]
  /\ last' = Step("validateServiceLog")
  /\ UNCHANGED <<state, stored, storageFull, isInitialLoad, saveTimer, resetTimers,
                 now, nextDraftId, nextLogId, editAge, issued>>

NextValidate == Validate

SpecValidate == InitValidate /\ [][NextValidate]_vars

-----------------------------------------------------------------------------
(* Claims *)

\* The fields a Draft and a Record share.
SharedFields ==
  { "providerId", "serviceOrder", "carId", "odometer", "engineHours",
    "startDate", "endDate", "type", "serviceDescription" }

\* C1: in every reachable state the current draft is null, or a draft of the
\* collection has its id and the pointer's fields (isDirty and lastSaved
\* included) are those of that draft.
C1_CurrentDraftInCollection ==
  state.currentDraft # Null =>
    /\ \E i \in 1..Len(state.drafts) : state.drafts[i].id = state.currentDraft.id
    /\ \A i \in 1..Len(state.drafts) :
         state.drafts[i].id = state.currentDraft.id => state.drafts[i] = state.currentDraft

\* The save timer has just marked the current draft saved, next to another draft.
C1_Witness ==
  /\ last.op = "saveTimer"
  /\ state.currentDraft # Null
  /\ state.currentDraft.id = last.id
  /\ ~state.currentDraft.isDirty
  /\ state.currentDraft.lastSaved > 0
  /\ Len(state.drafts) = 2

\* C2: promoting a valid current draft appends one Record with the draft's
\* shared fields, a fresh id and createdAt = now, removes that draft and only
\* that draft, keeps the earlier Records and the other drafts in order, nulls
\* the pointer and empties the validation errors.
C2_PromoteValid ==
  [][ ( /\ last'.op = "createServiceLog"
        /\ state.currentDraft # Null
        /\ validateServiceLog(state.currentDraft) = <<>> )
      => LET d == state.currentDraft
             n == Len(state.serviceLogs)
             other(x) == x.id # d.id
         IN /\ Len(state'.serviceLogs) = n + 1
            /\ \A i \in 1..n : state'.serviceLogs[i] = state.serviceLogs[i]
            /\ \A f \in SharedFields : state'.serviceLogs[n + 1][f] = d[f]
            /\ \A i \in 1..n : state.serviceLogs[i].id # state'.serviceLogs[n + 1].id
            /\ state'.serviceLogs[n + 1].createdAt = now
            /\ state'.drafts = SelectSeq(state.drafts, other)
            /\ Len(state'.drafts) = Len(state.drafts) - 1
            /\ state'.currentDraft = Null
            /\ state'.validationErrors = <<>> ]_vars

\* A draft was promoted from between two others, after an earlier Record.
C2_Witness ==
  /\ last.op = "createServiceLog"
  /\ last.changed
  /\ Len(state.serviceLogs) = 2
  /\ Len(state.drafts) = 2
  /\ state.drafts[1].id < last.id
  /\ state.currentDraft = Null

\* C3: promoting a current draft that fails validation changes neither the
\* Records nor the drafts nor the pointer, and stores validate(draft), in order.
C3_PromoteInvalid ==
  [][ ( /\ last'.op = "createServiceLog"
        /\ state.currentDraft # Null
        /\ validateServiceLog(state.currentDraft) # <<>> )
      => /\ state'.serviceLogs = state.serviceLogs
         /\ state'.drafts = state.drafts
         /\ state'.currentDraft = state.currentDraft
         /\ state'.validationErrors = validateServiceLog(state.currentDraft) ]_vars

\* A promotion was rejected with two messages, the odometer's before the
\* description's.
C3_Witness ==
  /\ last.op = "createServiceLog"
  /\ ~last.changed
  /\ state.currentDraft # Null
  /\ state.validationErrors = << "Valid odometer reading is required",
                                 "Service description is required" >>

\* C4: every Record of the collection passes validation: the four texts are
\* not blank, the two measurements are not negative, both dates are set and
\* endDate >= startDate.
C4_RecordsValid ==
  \A i \in 1..Len(state.serviceLogs) :
    LET r == state.serviceLogs[i] IN
    /\ validateServiceLog(r) = <<>>
    /\ r.providerId \notin {"", " "}
    /\ r.serviceOrder \notin {"", " "}
    /\ r.carId \notin {"", " "}
    /\ r.serviceDescription \notin {"", " "}
    /\ r.odometer >= 0
    /\ r.engineHours >= 0
    /\ r.startDate # 0
    /\ r.endDate >= r.startDate

\* An edit session that moved a Record's dates was committed, and a promoted
\* draft's Record stands beside it.
C4_Witness ==
  /\ last.op = "saveEditingLog"
  /\ last.changed
  /\ \E i \in 1..Len(state.serviceLogs) :
       state.serviceLogs[i].id = last.id /\ state.serviceLogs[i].startDate = 3
  /\ \E i \in 1..Len(state.serviceLogs) : state.serviceLogs[i].id = 1

\* C5: autosave is a debounce: the save timer marks the draft saved only once
\* a full second has passed since the most recent mutation of the draft.
C5_SaveOnlyAfterQuietSecond ==
  last.op = "saveTimer" => last.age >= SaveDelay

\* C6: a pending save timer is always the current draft's, so none outlives a
\* switch of the current draft; and when a save timer fires, markDraftSaved
\* goes to the id the timer captured and no draft with another id changes.
C6_SaveTargetsCapturedDraft ==
  /\ [](saveTimer # NoTimer =>
          state.currentDraft # Null /\ state.currentDraft.id = saveTimer.draftId)
  /\ [][ last'.op = "saveTimer" =>
           /\ last'.id = saveTimer.draftId
           /\ Len(state'.drafts) = Len(state.drafts)
           /\ \A i \in 1..Len(state.drafts) :
                IF state.drafts[i].id = saveTimer.draftId
                THEN ~state'.drafts[i].isDirty
                ELSE state'.drafts[i] = state.drafts[i] ]_vars

\* A save timer has fired for the current draft while another draft, switched
\* away from before its own timer fired, is still dirty.
C6_Witness ==
  /\ last.op = "saveTimer"
  /\ state.currentDraft # Null
  /\ state.currentDraft.id = last.id
  /\ \E i \in 1..Len(state.drafts) :
       state.drafts[i].id # last.id /\ state.drafts[i].isDirty

\* C7: when the save timer fires the draft is saved and the status is 'saved';
\* a reset timer does not leave the status 'idle' while the current draft is
\* dirty again and its save is pending.
C7_ResetOnlyWhenQuiet ==
  /\ last.op = "saveTimer" =>
       /\ state.saveStatus = "saved"
       /\ \A i \in 1..Len(state.drafts) :
            state.drafts[i].id = last.id => ~state.drafts[i].isDirty
  /\ ( /\ last.op = "resetTimer"
       /\ state.currentDraft # Null
       /\ state.currentDraft.isDirty
       /\ saveTimer # NoTimer )
     => state.saveStatus # "idle"

\* C8: no timer started before a switch of the current draft changes the state
\* after it: no save timer is pending for a draft that is not current, and no
\* reset timer that a switch made stale changes the save status.
C8_NoStaleTimerActs ==
  /\ saveTimer # NoTimer => CurrentId(state) = saveTimer.draftId
  /\ ~(last.op = "resetTimer" /\ last.stale /\ last.changed)

\* The ids a draft can have: those of storage and those created.
DraftIds == {11, 12} \cup (1..MaxDrafts)

DirtyCurrent(id) ==
  state.currentDraft # Null /\ state.currentDraft.id = id /\ state.currentDraft.isDirty

SavedNow(id) ==
  /\ last.op = "saveTimer"
  /\ last.id = id
  /\ \E i \in 1..Len(state.drafts) :
       /\ state.drafts[i].id = id
       /\ ~state.drafts[i].isDirty
       /\ state.drafts[i].lastSaved = now

\* C9: a draft is created clean, every updateDraft leaves the draft dirty, the
\* save timer marks its draft saved (not dirty, lastSaved = the clock), and no
\* draft stays the dirty current draft for ever: with time passing and due
\* timers running, it is marked saved unless it stops being the current draft.
C9_DirtyDraftEventuallySaved ==
  /\ [][ last'.op = "createDraft" =>
           /\ state'.currentDraft # Null
           /\ state'.currentDraft.id = last'.id
           /\ ~state'.currentDraft.isDirty ]_vars
  /\ [][ last'.op = "updateDraft" =>
           \A i \in 1..Len(state'.drafts) :
             state'.drafts[i].id = last'.id => state'.drafts[i].isDirty ]_vars
  /\ [][ last'.op = "saveTimer" =>
           /\ DirtyCurrent(last'.id)
           /\ \E i \in 1..Len(state'.drafts) :
                /\ state'.drafts[i].id = last'.id
                /\ ~state'.drafts[i].isDirty
                /\ state'.drafts[i].lastSaved = now' ]_vars
  /\ \A id \in DraftIds : []<>(~DirtyCurrent(id))

\* The save timer has marked a created draft saved at a later clock reading,
\* and the draft is still current.
C9_Witness ==
  /\ \E id \in 1..MaxDrafts : SavedNow(id) /\ CurrentId(state) = id
  /\ now > 0

\* C10: writing a start date to a draft or to an edit session leaves
\* endDate = startDate + 1 day.
C10_EndDateIsDayAfterStart ==
  /\ ( /\ last.op = "updateDraft"
       /\ last.field = "startDate"
       /\ state.currentDraft # Null
       /\ state.currentDraft.startDate # 0 )
     => state.currentDraft.endDate = state.currentDraft.startDate + 1
  /\ ( /\ last.op = "updateEditingLogField"
       /\ last.field = "startDate"
       /\ state.editingLog # Null
       /\ state.editingLog.startDate # 0 )
     => state.editingLog.endDate = state.editingLog.startDate + 1

\* The blob this state is written as, and the store a fresh page makes of it.
Serialized(s) == persistToLocalStorage(s, NoBlob, FALSE)

Restored(s) == LoadEffect(initialState, Serialized(s))

\* d with its isDirty flag cleared.
Clean(d) == [d EXCEPT !.isDirty = FALSE]

C12_NoWriteBeforeLoad ==
  /\ [][ isInitialLoad /\ isInitialLoad' => stored' = stored ]_vars
  /\ [][ ( /\ last'.op = "load"
           /\ stored \notin {NoBlob, Corrupt} )
         => /\ state'.serviceLogs = JSONParse(stored).serviceLogs
            /\ state'.drafts = JSONParse(stored).drafts
            /\ ~storageFull =>
                 /\ JSONParse(stored').serviceLogs = JSONParse(stored).serviceLogs
                 /\ JSONParse(stored').drafts = JSONParse(stored).drafts ]_vars

\* The page was loaded again over a blob this program wrote after a promotion.
C12_Witness ==
  /\ last.op = "load"
  /\ \E i \in 1..Len(state.serviceLogs) : state.serviceLogs[i].id = 1
  /\ stored = Serialized(state)

\* C13: once the load is over, every step that changes the store (and the
\* load itself) leaves in storage the projection of the new state, unless
\* storage refused the write; an edit of a draft is in storage while its save
\* timer is still pending.
C13_WriteAfterEveryChange ==
  /\ [][ ( /\ ~isInitialLoad'
           /\ state' # state \/ isInitialLoad
           /\ ~storageFull )
         => stored' = Serialized(state') ]_vars
  /\ [][ ( /\ last'.op = "updateDraft"
           /\ ~storageFull )
         => /\ saveTimer' # NoTimer
            /\ state'.currentDraft.isDirty
            /\ JSONParse(stored').currentDraft = Clean(state'.currentDraft) ]_vars

\* A draft was edited a moment ago: its save timer has the whole second to
\* run, and storage holds the edit.
C13_Witness ==
  /\ last.op = "updateDraft"
  /\ saveTimer # NoTimer
  /\ saveTimer.rem = SaveDelay
  /\ state.currentDraft.serviceDescription = "oil change"
  /\ stored = Serialized(state)

\* C14: a write that storage refuses leaves the blob as it was, and the step
\* that caused it changes the store as it does with working storage; a load
\* from an absent or corrupt blob leaves the store as it was.
C14_FailuresSwallowed ==
  /\ [][ storageFull => stored' = stored ]_vars
  /\ [][ ( /\ storageFull
           /\ last'.op = "updateDraft" )
         => /\ state'.currentDraft # Null
            /\ state'.currentDraft.isDirty
            /\ state'.currentDraft.serviceDescription = "oil change"
            /\ state'.drafts[FindIndex(state'.drafts, last'.id)] = state'.currentDraft ]_vars
  /\ [][ ( /\ last'.op = "load"
           /\ stored \in {NoBlob, Corrupt} )
         => state' = state ]_vars

\* A draft was edited while storage refused writes: the store has the edit,
\* storage still has the draft without it.
C14_Witness ==
  /\ last.op = "updateDraft"
  /\ storageFull
  /\ stored \notin {NoBlob, Corrupt}
  /\ state.currentDraft.serviceDescription = "oil change"
  /\ \E i \in 1..Len(JSONParse(stored).drafts) :
       /\ JSONParse(stored).drafts[i].id = state.currentDraft.id
       /\ JSONParse(stored).drafts[i].serviceDescription = ""

\* The fields of the store.
StateFields == DOMAIN initialState

\* C15: loadFromStorage gives every field of its payload the payload's value
\* and leaves every other field of the store as it was.
C15_RestoreOverwritesBlobFields ==
  [][ last'.op = "loadFromStorage"
      => /\ \A f \in DOMAIN last'.payload : state'[f] = last'.payload[f]
         /\ \A f \in StateFields \ DOMAIN last'.payload : state'[f] = state[f]
         /\ DOMAIN state' = StateFields ]_vars

\* Records alone were restored into a store with a search term, a filter, an
\* open filter panel, an open edit session, validation errors and a draft.
C15_Witness ==
  /\ last.op = "loadFromStorage"
  /\ DOMAIN last.payload = {"serviceLogs"}
  /\ state.serviceLogs = <<>>
  /\ state.searchTerm = "tyres"
  /\ state.filters.type = "planned"
  /\ state.showFilters
  /\ state.editingLog # Null
  /\ state.validationErrors # <<>>
  /\ Len(state.drafts) = 1

\* The steps of an edit session short of its commit.
SessionOps == {"setEditingLog", "updateEditingLogField", "cancelEdit"}

\* C16: opening an edit session, editing its fields and cancelling it change
\* no Record, in the store or in storage; a session opened on a Record is
\* that Record, whatever was typed into the session before it; after a cancel
\* no session is open.
C16_EditSessionIsolated ==
  /\ [][ last'.op \in SessionOps
         => /\ state'.serviceLogs = state.serviceLogs
            /\ JSONParse(stored').serviceLogs = JSONParse(stored).serviceLogs ]_vars
  /\ [][ last'.op = "setEditingLog"
         => \E i \in 1..Len(state.serviceLogs) :
              /\ state.serviceLogs[i].id = last'.id
              /\ state'.editingLog = state.serviceLogs[i] ]_vars
  /\ [][ last'.op = "cancelEdit" => state'.editingLog = Null ]_vars

\* A session was opened on one Record while an edited session on another
\* Record was open.
C16_Witness ==
  /\ last.op = "setEditingLog"
  /\ last.changed
  /\ Len(state.serviceLogs) = 2
  /\ state.editingLog # Null
  /\ ~SessionEdited(state)

\* C17: the commit of an edit session whose working copy is valid puts the
\* working copy in the place of the Record with its id, leaves every other
\* Record and the length as they were, closes the session, empties the
\* validation errors and sets the save status to 'idle'.
C17_CommitReplacesInPlace ==
  [][ ( /\ last'.op = "saveEditingLog"
        /\ state.editingLog # Null
        /\ validateServiceLog(state.editingLog) = <<>> )
      => /\ Len(state'.serviceLogs) = Len(state.serviceLogs)
         /\ \E i \in 1..Len(state.serviceLogs) :
              state.serviceLogs[i].id = state.editingLog.id
         /\ \A i \in 1..Len(state.serviceLogs) :
              state'.serviceLogs[i] =
                (IF state.serviceLogs[i].id = state.editingLog.id
                 THEN state.editingLog
                 ELSE state.serviceLogs[i])
         /\ state'.editingLog = Null
         /\ state'.validationErrors = <<>>
         /\ state'.saveStatus = "idle" ]_vars

\* The first of two Records was committed with a new start date.
C17_Witness ==
  /\ last.op = "saveEditingLog"
  /\ last.changed
  /\ Len(state.serviceLogs) = 2
  /\ state.serviceLogs[1].id = last.id
  /\ state.serviceLogs[1].startDate = 3
  /\ state.editingLog = Null

\* C18: the commit of an edit session whose working copy fails validation
\* changes no Record, leaves the session open on the same working copy and
\* stores validate(working copy) as the validation errors.
C18_CommitRejected ==
  [][ ( /\ last'.op = "saveEditingLog"
        /\ state.editingLog # Null
        /\ validateServiceLog(state.editingLog) # <<>> )
      => /\ state'.serviceLogs = state.serviceLogs
         /\ state'.editingLog = state.editingLog
         /\ state'.validationErrors = validateServiceLog(state.editingLog) ]_vars

\* A commit with odometer = -5 was rejected and the session is still open.
C18_Witness ==
  /\ last.op = "saveEditingLog"
  /\ ~last.changed
  /\ state.editingLog # Null
  /\ state.editingLog.odometer = -5
  /\ state.validationErrors = << "Valid odometer reading is required" >>

\* C19: deleteServiceLog removes the Record with that id and no other, closes
\* an edit session open on that id and leaves one open on another id as it
\* is; an open edit session is always on a Record of the collection.
C19_DeleteClosesItsSession ==
  /\ [][ last'.op = "deleteServiceLog"
         => LET other(l) == l.id # last'.id IN
            /\ state'.serviceLogs = SelectSeq(state.serviceLogs, other)
            /\ Len(state'.serviceLogs) = Len(state.serviceLogs) - 1
            /\ state'.editingLog =
                 (IF state.editingLog # Null /\ state.editingLog.id = last'.id
                  THEN Null
                  ELSE state.editingLog) ]_vars
  /\ [](state.editingLog # Null =>
          \E i \in 1..Len(state.serviceLogs) :
            state.serviceLogs[i].id = state.editingLog.id)

\* A Record was deleted while an edited session was open on another one.
C19_Witness ==
  /\ last.op = "deleteServiceLog"
  /\ SessionEdited(state)
  /\ state.editingLog.id # last.id
  /\ Len(state.serviceLogs) = 1

\* C20: the validation errors are empty right after a different draft is
\* selected, a draft is created, an edit session is opened, a draft is
\* promoted or an edit session is committed.
C20_ErrorsClearedOnNewTarget ==
  [][ ( \/ /\ last'.op = "selectDraft"
           /\ state'.currentDraft # Null
           /\ CurrentId(state') # CurrentId(state)
        \/ last'.op = "createDraft"
        \/ last'.op = "setEditingLog"
        \/ last'.op = "createServiceLog" /\ last'.changed
        \/ last'.op = "saveEditingLog" /\ last'.changed )
      => state'.validationErrors = <<>> ]_vars

\* The messages of rules 1..9, in the order of the checks.
RuleMessages ==
  << "Provider ID is required",
     "Service Order is required",
     "Car ID is required",
     "Valid odometer reading is required",
     "Valid engine hours is required",
     "Start date is required",
     "End date is required",
     "Service description is required",
     "End date must be after start date" >>

\* The field rule k is about, for the eight required-field rules.
RuleField ==
  << "providerId", "serviceOrder", "carId", "odometer", "engineHours",
     "startDate", "endDate", "serviceDescription" >>

\* The field f of the candidate c is missing, blank (text), negative (number)
\* or empty (date).
FieldBad(c, f) ==
  \/ f \notin DOMAIN c
  \/ f \in {"providerId", "serviceOrder", "carId", "serviceDescription"} /\ Trim(c[f]) = ""
  \/ f \in {"odometer", "engineHours"} /\ c[f] < 0
  \/ f \in {"startDate", "endDate"} /\ c[f] = 0

\* Both dates of the candidate are present.
BothDates(c) == ~FieldBad(c, "startDate") /\ ~FieldBad(c, "endDate")

\* The place of a message in the rule order, 0 when it is none of the nine.
RuleOf(m) ==
  IF \E k \in 1..9 : RuleMessages[k] = m
  THEN CHOOSE k \in 1..9 : RuleMessages[k] = m
  ELSE 0

\* C21: for every candidate, the list validate returns holds the message of a
\* required-field rule exactly when that rule's field is missing, blank or
\* negative, whatever the other fields are; its messages are in the rule order
\* 1..9, none twice; and it is empty exactly when no rule is violated.
C21_ValidateRuleByRule ==
  (probe # NoProbe /\ probe.called) =>
    LET c == probe.arg
        r == probe.result
    IN /\ \A k \in 1..8 :
            (\E i \in 1..Len(r) : r[i] = RuleMessages[k]) <=> FieldBad(c, RuleField[k])
       /\ \A i \in 1..Len(r) : RuleOf(r[i]) # 0
       /\ \A i, j \in 1..Len(r) : i < j => RuleOf(r[i]) < RuleOf(r[j])
       /\ (r = <<>>) <=>
            /\ \A k \in 1..8 : ~FieldBad(c, RuleField[k])
            /\ c.endDate >= c.startDate

\* A candidate without carId, with a blank provider and a negative odometer,
\* got the three messages in rule order.
C21_Witness ==
  /\ probe # NoProbe
  /\ probe.called
  /\ "carId" \notin DOMAIN probe.arg
  /\ probe.result = << "Provider ID is required",
                       "Car ID is required",
                       "Valid odometer reading is required" >>

Ids(list) == {list[i].id : i \in 1..Len(list)}

\* No two elements of the list have the same id.
DistinctIds(list) == \A i, j \in 1..Len(list) : list[i].id = list[j].id => i = j

SameCreatedAt(before, after) ==
  \A i \in 1..Len(before), j \in 1..Len(after) :
    before[i].id = after[j].id => before[i].createdAt = after[j].createdAt

\* The Records of the stored blob, none when the key is absent.
StoredLogs(blob) == IF blob = NoBlob THEN <<>> ELSE JSONParse(blob).serviceLogs

\* C24: a Record's createdAt is the clock reading of its promotion and no
\* step changes it afterwards, in the store or in storage: an edit-session
\* update and a commit leave the ids and the createdAt of all Records, place
\* by place, as they were, and the working copy keeps the id and createdAt of
\* its Record.
C24_CreatedAtSetOnce ==
  /\ [][ (last'.op = "createServiceLog" /\ last'.changed)
         => state'.serviceLogs[Len(state'.serviceLogs)].createdAt = now ]_vars
  /\ [][ /\ SameCreatedAt(state.serviceLogs, state'.serviceLogs)
         /\ SameCreatedAt(StoredLogs(stored), StoredLogs(stored'))
         /\ SameCreatedAt(StoredLogs(stored), state'.serviceLogs) ]_vars
  /\ [][ last'.op \in {"updateEditingLogField", "saveEditingLog"}
         => /\ Len(state'.serviceLogs) = Len(state.serviceLogs)
            /\ \A i \in 1..Len(state.serviceLogs) :
                 /\ state'.serviceLogs[i].id = state.serviceLogs[i].id
                 /\ state'.serviceLogs[i].createdAt = state.serviceLogs[i].createdAt
            /\ state'.editingLog # Null
                 => /\ state'.editingLog.id = state.editingLog.id
                    /\ state'.editingLog.createdAt = state.editingLog.createdAt ]_vars
  /\ [](state.editingLog # Null
          => SameCreatedAt(<<state.editingLog>>, state.serviceLogs))

\* A Record promoted in this session, at a clock reading above 0, was
\* committed with a new start date and has the createdAt of its promotion.
C24_Witness ==
  /\ last.op = "saveEditingLog"
  /\ last.changed
  /\ last.id \in issued
  /\ \E i \in 1..Len(state.serviceLogs) :
       /\ state.serviceLogs[i].id = last.id
       /\ state.serviceLogs[i].startDate = 3
       /\ state.serviceLogs[i].createdAt > 0

\* C25: in every reachable state the type of every Record of the collection
\* is planned, unplanned or emergency.
C25_RecordTypeIsServiceType ==
  \A i \in 1..Len(state.serviceLogs) : state.serviceLogs[i].type \in ServiceTypes

\* Two characters are the same letter, whatever their case.
SameLetter(a, b) == LowerChar(a) = LowerChar(b)

\* The term is a case-insensitive substring of the string form of at least
\* one field of the Record.
TermInSomeField(log, term) ==
  \E f \in DOMAIN log :
    LET text == ValueText(f, log[f]) IN
    \E k \in 0..(Len(text) - Len(term)) :
      \A i \in 1..Len(term) : SameLetter(text[k + i], term[i])

NoFilters == [startDateFrom |-> 0, startDateTo |-> 0, type |-> ""]

C27_UnknownIdIsNoOp ==
  [][ ( \/ /\ last'.op \in {"updateDraft", "deleteDraft", "markDraftSaved"}
           /\ last'.id \notin Ids(state.drafts)
        \/ /\ last'.op = "deleteServiceLog"
           /\ last'.id \notin Ids(state.serviceLogs) )
      => state' = state ]_vars

\* updateDraft was given an unknown id while a draft was current and clean
\* and an edit session was open: the save status is still idle.
C27_Witness ==
  /\ last.op = "updateDraft"
  /\ last.id \notin Ids(state.drafts)
  /\ state.currentDraft # Null
  /\ ~state.currentDraft.isDirty
  /\ state.editingLog # Null
  /\ state.saveStatus = "idle"

\* C28: createDraft appends one draft with empty providerId, serviceOrder,
\* carId and serviceDescription, odometer and engineHours 0, type planned,
\* endDate one day after startDate, isDirty false and an id no draft of the
\* collection has, makes it the current draft, and leaves the drafts that
\* were there, the Records and the edit session as they were.
C28_CreateDraftDefaults ==
  [][ last'.op = "createDraft"
      => LET n == Len(state.drafts)
             d == state'.drafts[n + 1]
         IN /\ Len(state'.drafts) = n + 1
            /\ \A f \in {"providerId", "serviceOrder", "carId", "serviceDescription"} :
                 d[f] = ""
            /\ d.odometer = 0
            /\ d.engineHours = 0
            /\ d.type = "planned"
            /\ d.endDate = d.startDate + 1
            /\ ~d.isDirty
            /\ d.id \notin Ids(state.drafts)
            /\ state'.currentDraft = d
            /\ \A i \in 1..n : state'.drafts[i] = state.drafts[i]
            /\ state'.serviceLogs = state.serviceLogs
            /\ state'.editingLog = state.editingLog ]_vars

\* C29: deleteDraft(id) removes the draft with that id and no other: the
\* other drafts keep their fields and their order, the Records are unchanged,
\* and the current-draft pointer becomes null when it was on the deleted
\* draft and stays as it was otherwise.
C29_DeleteDraftFrame ==
  [][ last'.op = "deleteDraft"
      => LET other(d) == d.id # last'.id IN
         /\ state'.drafts = SelectSeq(state.drafts, other)
         /\ last'.id \in Ids(state.drafts) => Len(state'.drafts) = Len(state.drafts) - 1
         /\ state'.serviceLogs = state.serviceLogs
         /\ state'.currentDraft =
              (IF state.currentDraft # Null /\ state.currentDraft.id = last'.id
               THEN Null
               ELSE state.currentDraft) ]_vars

\* A draft was deleted while another, dirty draft was current: two drafts
\* are left and the pointer is still on the dirty one.
C29_Witness ==
  /\ last.op = "deleteDraft"
  /\ last.id \notin Ids(state.drafts)
  /\ Len(state.drafts) = 2
  /\ state.currentDraft # Null
  /\ state.currentDraft.isDirty
  /\ state.currentDraft = state.drafts[1]

\* C30: markDraftSaved(id), dispatched directly or by the save timer, changes
\* isDirty and lastSaved of the draft with that id and nothing else of it; the
\* other drafts and the Records are unchanged; the pointer, when on that
\* draft, is that draft afterwards.  So the fields edited while the timer was
\* pending have their edited values after it fired.
C30_MarkSavedFrame ==
  [][ last'.op \in {"saveTimer", "markDraftSaved"}
      => /\ state'.serviceLogs = state.serviceLogs
         /\ Len(state'.drafts) = Len(state.drafts)
         /\ \A i \in 1..Len(state.drafts) :
              IF state.drafts[i].id = last'.id
              THEN /\ \A f \in (DOMAIN state.drafts[i]) \ {"isDirty", "lastSaved"} :
                        state'.drafts[i][f] = state.drafts[i][f]
                   /\ ~state'.drafts[i].isDirty
                   /\ state'.drafts[i].lastSaved = now
                   /\ CurrentId(state) = last'.id => state'.currentDraft = state'.drafts[i]
              ELSE state'.drafts[i] = state.drafts[i]
         /\ CurrentId(state) # last'.id => state'.currentDraft = state.currentDraft ]_vars

\* The save timer fired half a second after the later of two edits, of the
\* description and of the odometer: both edits are in the saved draft.
C30_Witness ==
  /\ last.op = "saveTimer"
  /\ last.age < SaveDelay
  /\ state.currentDraft # Null
  /\ state.currentDraft.id = last.id
  /\ state.currentDraft.serviceDescription = "oil change"
  /\ state.currentDraft.odometer = -5
  /\ ~state.currentDraft.isDirty
  /\ state.currentDraft.lastSaved = now
  /\ now > 0

\* C31: the save status never stays 'saving' forever: with time passing and
\* due timers firing, every state whose save status is 'saving' is followed
\* by one whose save status is 'saved' or 'idle'.
C31_SavingEventuallyEnds ==
  (state.saveStatus = "saving") ~> (state.saveStatus \in {"saved", "idle"})

\* C32: whenever the current draft is dirty, the save status is 'saving'.
C32_DirtyMeansSaving ==
  (~isInitialLoad /\ state.currentDraft # Null /\ state.currentDraft.isDirty)
    => state.saveStatus = "saving"

\* C33: an edit-session commit leaves the draft collection, the current-draft
\* pointer, the search term, the filters and the visibility of the filter
\* panel as they were.
C33_CommitFrame ==
  [][ last'.op = "saveEditingLog"
      => /\ state'.drafts = state.drafts
         /\ state'.currentDraft = state.currentDraft
         /\ state'.searchTerm = state.searchTerm
         /\ state'.filters = state.filters
         /\ state'.showFilters = state.showFilters ]_vars

\* The fields of the interface ServiceLog.
RecordFields == SharedFields \cup {"id", "createdAt"}

\* C34: the Record a promotion appends has the fields of ServiceLog and no
\* others, in the store and in the stored serviceLogs: lastSaved and isDirty
\* of the draft are not carried into it.
C34_RecordHasRecordFieldsOnly ==
  [][ (last'.op = "createServiceLog" /\ last'.changed)
      => /\ DOMAIN state'.serviceLogs[Len(state'.serviceLogs)] = RecordFields
         /\ \A i \in 1..Len(StoredLogs(stored')) :
              StoredLogs(stored')[i].id = state'.serviceLogs[Len(state'.serviceLogs)].id
                => DOMAIN StoredLogs(stored')[i] = RecordFields ]_vars

====
